---------------------------- MODULE Spec2Model ----------------------------
(***************************************************************************)
(* ParCorrWLS (tigramite/independence_tests/parcorr_wls.py): the weighted  *)
(* partial-correlation test.  The module models the test object's fields   *)
(* (gt_std_matrix, expert_knowledge, window_size, stds, data, dataframe),  *)
(* its methods _get_array / _get_stds / _get_std_estimation,               *)
(* _estimate_std_time, _estimate_std_parent, _get_single_residuals and     *)
(* get_model_selection_criterion, and the numpy operations they use.       *)
(*                                                                         *)
(* Numbers.  A float is modelled by an exact value (n/d) * sqrt(r),        *)
(* [n |-> n, d |-> d, r |-> r], n/d in lowest terms with d >= 0 and r a    *)
(* square-free positive integer (r = 1 for a rational; the square roots    *)
(* come from the standardization of _get_single_residuals).  d > 0 is a    *)
(* finite value, 1/0 is +inf, -1/0 is -inf and 0/0 is not-a-number, with   *)
(* the IEEE rules for their arithmetic.  Rounding is not modelled.  numpy  *)
(* arrays are functions on 0-based index ranges.                           *)
(***************************************************************************)
EXTENDS Integers, Sequences, FiniteSets, TLC

VARIABLES
    dataframe,          \* self.dataframe.values, shape (T, N): dataframe[t][i]
    gt_std_matrix,      \* self.gt_std_matrix: None or a (T, N) matrix
    expert_knowledge,   \* self.expert_knowledge (mutated by _get_stds)
    arg_expert_knowledge, \* the expert_knowledge argument __init__ was given
    window_size,        \* self.window_size
    stds,               \* self.stds: None or a matrix (rows x T)
    data,               \* self.data: None or the (N, M) lag-zero cache
    array,              \* the array the last call returned to its caller, or None
    call,               \* the last call: its name and arguments
    ret,                \* the last call's outcome
    trace               \* the steps the last call executed, in order

vars == <<dataframe, gt_std_matrix, expert_knowledge, arg_expert_knowledge,
          window_size, stds, data, array, call, ret, trace>>

--------------------------------------------------------------------------
(* Bounds of the model *)

\* number of time steps of the dataframe
TimeLen == 4

\* largest window_size a test object is constructed with
MaxWindow == 2

--------------------------------------------------------------------------
(* Numbers *)

AbsInt(i) == IF i < 0 THEN -i ELSE i

SignInt(i) == IF i < 0 THEN -1 ELSE IF i > 0 THEN 1 ELSE 0

RECURSIVE Gcd(_, _)
Gcd(a, b) == IF b = 0 THEN a ELSE Gcd(b, a % b)

\* (n/d) * sqrt(r) with d >= 0, in lowest terms; r is square-free
Norm(n, d, r) ==
    IF d = 0 THEN [n |-> SignInt(n), d |-> 0, r |-> 1]
    ELSE IF n = 0 THEN [n |-> 0, d |-> 1, r |-> 1]
    ELSE LET g == Gcd(AbsInt(n), d) IN [n |-> n \div g, d |-> d \div g, r |-> r]

\* the float of an int
R(i) == [n |-> i, d |-> 1, r |-> 1]

NaN == [n |-> 0, d |-> 0, r |-> 1]

\* np.isnan
IsNaN(a) == a.n = 0 /\ a.d = 0

IsFinite(a) == a.d > 0

IsZero(a) == a.n = 0 /\ a.d > 0

\* a + b.  Two finite non-zero terms are added only when they share the
\* radical (every sum the code forms does).
RAdd(a, b) ==
    IF a.d = 0 /\ b.d = 0 THEN (IF a.n = b.n THEN a ELSE NaN)
    ELSE IF IsZero(a) THEN b
    ELSE IF IsZero(b) THEN a
    ELSE IF a.d = 0 \/ b.d = 0 THEN Norm(a.n * b.d + b.n * a.d, 0, 1)
    ELSE LET g == Gcd(a.d, b.d)
         IN  CASE a.r = b.r ->
                Norm(a.n * (b.d \div g) + b.n * (a.d \div g), (a.d \div g) * b.d, a.r)

RNeg(a) == [a EXCEPT !.n = -a.n]

RSub(a, b) == RAdd(a, RNeg(b))

\* a * b: sqrt(r1) sqrt(r2) = g sqrt((r1/g)(r2/g)) for g = gcd(r1, r2)
RMul(a, b) ==
    IF a.d = 0 \/ b.d = 0 \/ a.n = 0 \/ b.n = 0 THEN Norm(a.n * b.n, a.d * b.d, 1)
    ELSE LET g == Gcd(a.r, b.r)
             ga == Gcd(AbsInt(a.n), b.d)   \* cancelled before multiplying
             gb == Gcd(AbsInt(b.n), a.d)
         IN  Norm((a.n \div ga) * (b.n \div gb) * g, (a.d \div gb) * (b.d \div ga),
                  (a.r \div g) * (b.r \div g))

\* np.reciprocal, 1 / a: 1/0. is inf
RRecip(a) ==
    IF a.n < 0 THEN Norm(-a.d, -a.n * a.r, a.r) ELSE Norm(a.d, a.n * a.r, a.r)

RDiv(a, b) == RMul(a, RRecip(b))

\* abs()
RAbs(a) == [a EXCEPT !.n = AbsInt(a.n)]

RECURSIVE SquarePart(_, _)
\* the largest s with s * s dividing m, for m >= 1, searched from k up
SquarePart(m, k) ==
    IF k * k > m THEN 1
    ELSE IF m % (k * k) = 0 THEN k * SquarePart(m \div (k * k), k)
    ELSE SquarePart(m, k + 1)

\* np.sqrt of a rational a >= 0: sqrt(n/d) = sqrt(n d) / d
RSqrt(a) ==
    IF a.n = 0 THEN R(0)
    ELSE LET m == a.n * a.d
             s == SquarePart(m, 2)
         IN  Norm(s, a.d, m \div (s * s))

--------------------------------------------------------------------------
(* numpy vectors and matrices: functions on 0 .. len-1 *)

Len0(v) == Cardinality(DOMAIN v)

EmptyVec == [i \in {} |-> R(0)]

\* A numpy array with the entries f gives: the function f itself, held as
\* the table of its values (numpy computes an array's entries when it builds
\* the array)
ndarray(f) == f @@ EmptyVec

\* np.ones(n)
Ones(n) == ndarray([i \in 0 .. n - 1 |-> R(1)])

\* np.concatenate((a, b))
Concat(a, b) ==
    ndarray([i \in 0 .. Len0(a) + Len0(b) - 1 |->
                IF i < Len0(a) THEN a[i] ELSE b[i - Len0(a)]])

RECURSIVE SumTo(_, _)
\* v[0] + ... + v[k-1], added left to right
SumTo(v, k) == IF k = 0 THEN R(0) ELSE RAdd(SumTo(v, k - 1), v[k - 1])

\* np.sum of a vector
VSum(v) == SumTo(v, Len0(v))

\* np.dot of two vectors of one length
VDot(a, b) == VSum(ndarray([i \in DOMAIN a |-> RMul(a[i], b[i])]))

VecIsFinite(v) == \A i \in DOMAIN v : IsFinite(v[i])

--------------------------------------------------------------------------
(* Python values held by expert_knowledge *)

None == [t |-> "None"]

PyStr(s) == [t |-> "str", s |-> s]

PyInt(i) == [t |-> "int", i |-> i]

\* a tuple (a, b) of two ints
PyTuple(a, b) == [t |-> "tuple", e |-> <<a, b>>]

\* a list; e holds its items
PyList(items) == [t |-> "list", e |-> items]

\* a dict; m maps its keys (ints) to its values
PyDict(m) == [t |-> "dict", m |-> m]

EmptyDict == PyDict([k \in {} |-> None])

TimeDependent == PyStr("time-dependent heteroskedasticity")

Homoskedasticity == PyStr("homoskedasticity")

\* v[0] of a Python value: the first item of a list, the first character of
\* a str, the first element of a tuple; IndexError on an empty sequence
Index0(v) ==
    CASE v.t = "list" ->
            IF Len(v.e) = 0 THEN [ok |-> FALSE, err |-> "IndexError"]
            ELSE [ok |-> TRUE, v |-> v.e[1]]
      [] v.t = "str" ->
            IF v.s = "" THEN [ok |-> FALSE, err |-> "IndexError"]
            ELSE [ok |-> TRUE, v |-> PyStr("first character")]
      [] v.t = "tuple" -> [ok |-> TRUE, v |-> PyInt(v.e[1])]
      [] OTHER -> [ok |-> FALSE, err |-> "TypeError"]

--------------------------------------------------------------------------
(* Variable references (var, lag): node[1] is the code's node[0], the       *)
(* variable index, and node[2] the code's node[1], the lag                 *)

NodeVar(node) == node[1]

NodeLag(node) == node[2]

SeqToSet(s) == {s[i] : i \in DOMAIN s}

RECURSIVE FilterSeq(_, _)
\* the items of s, in order, that are not in the set drop
FilterSeq(s, drop) ==
    IF s = <<>> THEN <<>>
    ELSE IF Head(s) \in drop THEN FilterSeq(Tail(s), drop)
    ELSE <<Head(s)>> \o FilterSeq(Tail(s), drop)

\* pp.DataFrame.construct_array(X, Y, Z, tau_max, mask_type=None,
\* return_cleaned_xyz, do_checks=True, remove_overlaps=True,
\* cut_off='2xtau_max'): row i of the array holds variable XYZ[i] at its lag
\* over the time steps max_lag .. T-1, max_lag = 2 * tau_max; nodes of Z that
\* are in X or Y are removed.  values is the (T, N) matrix of the dataframe.
construct_array(values, X, Y, Z, tau_max) ==
    LET Zc == FilterSeq(Z, SeqToSet(X) \cup SeqToSet(Y))
        XYZ == X \o Y \o Zc
        max_lag == 2 * tau_max
        T == Len0(values) - max_lag
    IN  [array |-> ndarray([i \in 0 .. Len(XYZ) - 1 |->
                      ndarray([t \in 0 .. T - 1 |->
                          values[t + max_lag + NodeLag(XYZ[i + 1])][NodeVar(XYZ[i + 1])]])]),
         XYZ |-> <<X, Y, Zc>>]

\* self.dataframe.N
DataframeN(values) == Len0(values[0])

\* array.shape
Dim(arr) == Len0(arr)

NumCols(arr) == IF Len0(arr) = 0 THEN 0 ELSE Len0(arr[0])

--------------------------------------------------------------------------
(* numpy operations of the estimators *)

\* np.convolve(a, v, 'valid'): the full convolution sum_m a[m] v[k-m] at the
\* positions where the two overlap completely; numpy swaps the arguments
\* when v is the longer one.  Defined for non-empty a and v.
ConvolveValid(a, v) ==
    LET long == IF Len0(a) >= Len0(v) THEN a ELSE v
        short == IF Len0(a) >= Len0(v) THEN v ELSE a
        ls == Len0(short)
    IN  ndarray([i \in 0 .. Len0(long) - ls |->
            VSum([m \in 0 .. ls - 1 |-> RMul(short[m], long[i + ls - 1 - m])])])

\* v / c, elementwise
VDivScalar(v, c) == ndarray([i \in DOMAIN v |-> RDiv(v[i], R(c))])

\* np.linalg.lstsq(z, y, rcond=None)[0] for a design matrix with one column
\* (zcol): the least-squares coefficient, and the minimum-norm solution 0
\* when the column is all zeros
Lstsq(zcol, y) ==
    LET zz == VDot(zcol, zcol)
    IN  IF IsZero(zz) THEN R(0) ELSE RDiv(VDot(zcol, y), zz)

\* abs(y - np.dot(z, beta_hat)) with z = arr[2:, :] transposed, or abs(y)
\* when there are no conditioning rows (dim = 2)
AbsResid(arr, target_var) ==
    LET y == arr[target_var]
    IN  IF Dim(arr) - 2 > 0
        THEN LET beta_hat == Lstsq(arr[2], y)
             IN  ndarray([t \in DOMAIN y |-> RAbs(RSub(y[t], RMul(arr[2][t], beta_hat)))])
        ELSE ndarray([t \in DOMAIN y |-> RAbs(y[t])])

\* Smooth with a placeholder of w ones instead of w - 1
SmoothPadsWindow(resid, w) ==
    Concat(Ones(w), VDivScalar(ConvolveValid(resid, Ones(w)), w))

\* np.concatenate((np.ones(w - 1), np.convolve(resid, np.ones(w), 'valid') / w))
Smooth(resid, w) ==
    Concat(Ones(w - 1), VDivScalar(ConvolveValid(resid, Ones(w)), w))

--------------------------------------------------------------------------
(* Indexing *)

MinInt(a, b) == IF a < b THEN a ELSE b

MaxInt(a, b) == IF a > b THEN a ELSE b

\* v[start:stop] for start >= 0: a negative stop counts from the end
Slice(v, start, stop) ==
    LET n == Len0(v)
        s == MinInt(start, n)
        e == IF stop < 0 THEN MaxInt(stop + n, 0) ELSE MinInt(stop, n)
    IN  ndarray([i \in 0 .. (e - s) - 1 |-> v[s + i]])

\* v[start:] for start >= 0
SliceFrom(v, start) == Slice(v, start, Len0(v))

\* np.roll(v, k) for k >= 0
Roll(v, k) == ndarray([i \in DOMAIN v |-> v[(i - k) % Len0(v)]])

\* a <= b for finite a, b
RLeq(a, b) == a.n * b.d <= b.n * a.d   \* a, b rational

\* np.argsort(h) with the default kind ('quicksort', not stable): every
\* permutation that puts h in ascending order is a possible result; there
\* is exactly one when h has no ties
Argsorts(h) ==
    LET n == Len0(h)
    IN  IF n = 0 THEN {EmptyVec}
        ELSE {p \in Permutations(0 .. n - 1) :
                 \A i \in 0 .. n - 2 : RLeq(h[p[i]], h[p[i + 1]])}

\* MaskPositive with the comparison ordered_z_ind > 1
MaskAboveOne(ind) == ndarray([i \in DOMAIN ind |-> IF ind[i] > 1 THEN ind[i] ELSE 0])

\* ordered_z_ind * (ordered_z_ind > 0)
MaskPositive(ind) == ndarray([i \in DOMAIN ind |-> IF ind[i] > 0 THEN ind[i] ELSE 0])

\* a[ind] for an index array ind
Take(a, ind) == ndarray([i \in DOMAIN ind |-> a[ind[i]]])

IndicesIn(ind, a) == \A i \in DOMAIN ind : ind[i] \in DOMAIN a

Raise(err) == [ok |-> FALSE, err |-> err]

--------------------------------------------------------------------------
(* The estimators *)

\* ParCorrWLS._estimate_std_time(arr, target_var) with self.window_size = w
_estimate_std_time(arr, target_var, w) ==
    IF NumCols(arr) = 0 THEN Raise("ValueError")   \* np.convolve of an empty array
    ELSE [ok |-> TRUE, v |-> Smooth(AbsResid(arr, target_var), w)]

\* Lines 213-232 of _estimate_std_parent: resid is smoothed in the order of
\* the driver H's values and put back in time order.  The set of possible
\* outcomes (one per result np.argsort may give); an outcome also records
\* the driver slice h and the two index arrays.
SmoothByDriver(resid, T, target_lag, H, cache, w) ==
    IF cache = None \/ H.e[1] \notin DOMAIN cache
    THEN {Raise("TypeError")}
    ELSE
    LET lag == H.e[2] + target_lag
        h == Slice(cache[H.e[1]], AbsInt(NumCols(cache) - T), lag)
        truncate_resid == SliceFrom(resid, AbsInt(lag))
        Result(sorted_ind, revert_argsort) ==
            LET ordered_z_ind == MaskPositive(sorted_ind)
            IN  IF ~IndicesIn(ordered_z_ind, truncate_resid)
                THEN Raise("IndexError")
                ELSE
                LET sorted_resid == Take(truncate_resid, ordered_z_ind)
                IN  IF Len0(sorted_resid) = 0
                    THEN Raise("ValueError")   \* np.convolve: a cannot be empty
                    ELSE
                    LET variance_est_sorted == Smooth(sorted_resid, w)
                    IN  IF ~IndicesIn(revert_argsort, variance_est_sorted)
                        THEN Raise("IndexError")
                        ELSE [ok |-> TRUE,
                              v |-> Roll(Concat(Take(variance_est_sorted, revert_argsort),
                                                Ones(AbsInt(lag))),
                                         AbsInt(lag)),
                              h |-> h,
                              ordered_z_ind |-> ordered_z_ind,
                              revert_argsort |-> revert_argsort]
    IN  UNION {{Result(p, q) :
                   q \in Argsorts(ndarray([i \in DOMAIN p |-> R(MaskPositive(p)[i])]))} :
               p \in Argsorts(h)}

\* ParCorrWLS._estimate_std_parent(arr, target_var, target_lag, H) with
\* self.data = cache and self.window_size = w: the set of possible outcomes
_estimate_std_parent(arr, target_var, target_lag, H, cache, w) ==
    LET T == NumCols(arr)
        resid == AbsResid(arr, target_var)
    IN  IF Dim(arr) - 2 > 0
        THEN SmoothByDriver(resid, T, target_lag, H, cache, w)
        ELSE IF T = 0 THEN {Raise("ValueError")}
             ELSE {[ok |-> TRUE, v |-> Smooth(resid, w)]}

--------------------------------------------------------------------------
(* _get_std_estimation and _get_stds *)

\* stds[count] = est: numpy copies a vector of the row's length, broadcasts
\* a vector of length 1 and raises ValueError for any other length
AssignRow(T, est) ==
    IF ~est.ok THEN est
    ELSE IF Len0(est.v) = T THEN [ok |-> TRUE, v |-> est.v]
    ELSE IF Len0(est.v) = 1 THEN [ok |-> TRUE, v |-> ndarray([t \in 0 .. T - 1 |-> est.v[0]])]
    ELSE Raise("ValueError")

\* np.ones((dim, T)) in place of np.ones((2, T))
OnesOfArrayShape(dim, T) == ndarray([count \in 0 .. dim - 1 |-> Ones(T)])

\* Lines 261-262: dim, T = array.shape; stds = np.ones((2, T))
InitialStds(dim, T) == ndarray([count \in 0 .. 1 |-> Ones(T)])

\* One pass of the loop of _get_std_estimation, for the tested variable
\* `variable` (X[0] for count = 0, Y[0] for count = 1): the possible
\* outcomes, each with the row stds[count] and the estimator that ran.
\* ek is the registry (a dict).
StdRow(arr, count, variable, ek, cache, w) ==
    LET T == NumCols(arr)
        unchanged == {[ok |-> TRUE, v |-> InitialStds(Dim(arr), T)[count], steps |-> <<>>]}
    IN  IF NodeVar(variable) \in DOMAIN ek.m
        THEN LET hs_source == Index0(ek.m[NodeVar(variable)])
             IN  IF ~hs_source.ok
                 THEN {[ok |-> FALSE, err |-> hs_source.err, steps |-> <<>>]}
                 ELSE IF hs_source.v = TimeDependent
                 THEN {[steps |-> <<"_estimate_std_time">>] @@
                       AssignRow(T, _estimate_std_time(arr, count, w))}
                 ELSE IF hs_source.v.t = "tuple"
                 THEN {[steps |-> <<"_estimate_std_parent">>] @@ AssignRow(T, o) :
                          o \in _estimate_std_parent(arr, count, NodeLag(variable),
                                                     hs_source.v, cache, w)}
                 ELSE unchanged
        ELSE unchanged

\* ParCorrWLS._get_std_estimation(array, X, Y) with self.expert_knowledge =
\* ek, self.data = cache, self.window_size = w: the possible outcomes, each
\* the (2, T) matrix stds (or the error raised) and the estimators that ran
_get_std_estimation(arr, X, Y, ek, cache, w) ==
    UNION {IF ~ox.ok THEN {ox}
           ELSE {IF ~oy.ok THEN [oy EXCEPT !.steps = ox.steps \o oy.steps]
                 ELSE [ok |-> TRUE,
                       stds |-> ndarray([count \in DOMAIN InitialStds(Dim(arr), NumCols(arr)) |->
                                            IF count = 0 THEN ox.v
                                            ELSE IF count = 1 THEN oy.v
                                            ELSE InitialStds(Dim(arr), NumCols(arr))[count]]),
                       steps |-> ox.steps \o oy.steps] :
                 oy \in StdRow(arr, 1, Y[1], ek, cache, w)} :
           ox \in StdRow(arr, 0, X[1], ek, cache, w)}

\* ExpandExpertKnowledge when both markers are expanded to per-variable
\* time-dependent descriptors
ExpandBothMarkers(ek, N) ==
    IF ek = TimeDependent \/ ek = Homoskedasticity
    THEN PyDict([variable \in 0 .. N - 1 |-> PyList(<<TimeDependent>>)])
    ELSE ek

\* The registry after lines 89-93: the two string markers are expanded
ExpandExpertKnowledge(ek, N) ==
    IF ek = TimeDependent
    THEN PyDict([variable \in 0 .. N - 1 |-> PyList(<<TimeDependent>>)])
    ELSE IF ek = Homoskedasticity THEN EmptyDict
    ELSE ek

\* any([type(item) == tuple for item in self.expert_knowledge.items()]):
\* every item of dict.items() is a (key, value) tuple
AnyItemIsTuple(ek) == \E key \in DOMAIN ek.m : TRUE

\* The lag-zero cache of lines 99-115: row j[0] of self.data is the row of
\* the array built with Z = all variables at lag zero that holds (j[0], 0);
\* a variable with no lag-zero row keeps the zeros of np.zeros
BuildData(values, X, Y, tau_max) ==
    LET N == DataframeN(values)
        allZ == [i \in 1 .. N |-> <<i - 1, 0>>]
        built == construct_array(values, X, Y, allZ, tau_max)
        nodes == built.array
        node_indices == built.XYZ[1] \o built.XYZ[2] \o built.XYZ[3]
        Hits(i) == {index \in 0 .. Len(node_indices) - 1 :
                        node_indices[index + 1] = <<i, 0>>}
    IN  ndarray([i \in 0 .. N - 1 |->
            IF Hits(i) = {} THEN ndarray([t \in 0 .. NumCols(nodes) - 1 |-> R(0)])
            ELSE nodes[CHOOSE index \in Hits(i) : \A other \in Hits(i) : other <= index]])

\* HasGroundTruth when the table is never looked at
TableIgnored(gt) == FALSE

\* Line 77: self.gt_std_matrix is not None
HasGroundTruth(gt) == gt # None

\* ParCorrWLS._get_stds(array, X, Y, Z, tau_max) on an object with the fields
\* given: the possible outcomes, each with the fields after the call and the
\* steps executed
_get_stds(arr, X, Y, Z, tau_max, values, gt, ek, cache, old_stds, w) ==
    IF HasGroundTruth(gt)
    THEN {[ok |-> TRUE, expert_knowledge |-> ek, data |-> cache,
           stds |-> construct_array(gt, X, Y, Z, tau_max).array,
           steps |-> <<"gt_construct_array">>]}
    ELSE
    LET ek1 == ExpandExpertKnowledge(ek, DataframeN(values))
        expand == IF ek1 # ek THEN <<"expand_expert_knowledge">> ELSE <<>>
    IN  IF ek1.t # "dict"
        THEN \* str and None have no items(): AttributeError
             {[ok |-> FALSE, err |-> "AttributeError", expert_knowledge |-> ek1,
               data |-> cache, stds |-> old_stds, steps |-> expand]}
        ELSE
        LET build == AnyItemIsTuple(ek1)
            cache1 == IF build THEN BuildData(values, X, Y, tau_max) ELSE cache
            steps1 == expand \o (IF build THEN <<"build_data">> ELSE <<>>)
                      \o <<"_get_std_estimation">>
        IN  {IF o.ok
             THEN [ok |-> TRUE, expert_knowledge |-> ek1, data |-> cache1,
                   stds |-> o.stds, steps |-> steps1 \o o.steps]
             ELSE [ok |-> FALSE, err |-> o.err, expert_knowledge |-> ek1,
                   data |-> cache1, stds |-> old_stds, steps |-> steps1 \o o.steps] :
             o \in _get_std_estimation(arr, X, Y, ek1, cache1, w)}

--------------------------------------------------------------------------
(* _get_single_residuals *)

\* x_vals_has_nan over the rows of X and Y only
tested_rows_have_nan(arr) ==
    \E i \in DOMAIN arr \cap {0, 1} : \E t \in DOMAIN arr[i] : arr[i][t].d = 0

\* Lines 306-307 and 328-329, np.isnan(np.sum(array)): a sum of floats is
\* not-a-number exactly when a term is, or when +inf and -inf are both among
\* the terms
x_vals_has_nan(arr) ==
    \/ \E i \in DOMAIN arr : \E t \in DOMAIN arr[i] : IsNaN(arr[i][t])
    \/ /\ \E i \in DOMAIN arr : \E t \in DOMAIN arr[i] : arr[i][t].d = 0 /\ arr[i][t].n > 0
       /\ \E i \in DOMAIN arr : \E t \in DOMAIN arr[i] : arr[i][t].d = 0 /\ arr[i][t].n < 0

\* np.diag(v)
Diag(v) ==
    ndarray([i \in DOMAIN v |-> ndarray([j \in DOMAIN v |-> IF i = j THEN v[i] ELSE R(0)])])

\* Line 334: weights = np.diag(np.reciprocal(stds))
Weights(stds_row) == Diag(ndarray([t \in DOMAIN stds_row |-> RRecip(stds_row[t])]))

\* np.dot(m, v) of a square matrix and a vector
MatVec(m, v) == ndarray([i \in DOMAIN m |-> VDot(m[i], v)])

\* np.dot(v, m) of a vector and a square matrix
VecMat(v, m) == ndarray([j \in DOMAIN m |-> VDot(v, [i \in DOMAIN m |-> m[i][j]])])

\* Lines 322-326: every row is centered, and divided by its standard
\* deviation unless that is zero
Standardize(arr) ==
    ndarray([i \in DOMAIN arr |->
        LET T == Len0(arr[i])
            mean == RDiv(VSum(arr[i]), R(T))
            centered == ndarray([t \in DOMAIN arr[i] |-> RSub(arr[i][t], mean)])
            std == RSqrt(RDiv(VDot(centered, centered), R(T)))
        IN  IF ~IsZero(std) THEN ndarray([t \in DOMAIN centered |-> RDiv(centered[t], std)])
            ELSE centered])

\* Lines 342-347: the fitted mean and the weighted residual, given the
\* coefficient beta_hat
MeanAndResid(y, z, weights, beta_hat, steps) ==
    [mean |-> ndarray([t \in DOMAIN z |-> RMul(z[t], beta_hat)]),
     resid |-> VecMat(ndarray([t \in DOMAIN y |-> RSub(y[t], RMul(z[t], beta_hat))]), weights),
     steps |-> steps]

\* Lines 344-347 and 353-355: ValueError when the residual sums to
\* not-a-number, else the residual and the mean are returned
ReturnResidual(fit) ==
    IF IsNaN(VSum(fit.resid))
    THEN [ok |-> FALSE, err |-> "ValueError: resid has nans", steps |-> fit.steps]
    ELSE [ok |-> TRUE, resid |-> fit.resid, mean |-> fit.mean, steps |-> fit.steps]

\* Lines 336-347: the weighted regression of y on the conditioning row z,
\* with zw = np.dot(weights, z) and yw = np.dot(y, weights)
WeightedRegression(y, z, weights, zw, yw, steps) ==
    IF ~VecIsFinite(zw) \/ ~VecIsFinite(yw)
    THEN \* lstsq of inf or nan raises LinAlgError, or gives nan and line 347
         \* raises ValueError
         [ok |-> FALSE, err |-> "LinAlgError or ValueError: resid has nans", steps |-> steps]
    ELSE ReturnResidual(MeanAndResid(y, z, weights, Lstsq(zw, yw), steps))

\* Lines 327-355, after the standardization gave arr1, with stds =
\* stds_row.  arr1 has at most one conditioning row.
ResidualsOfRow(arr1, target_var, standardize, stds_row, steps1) ==
    IF standardize /\ x_vals_has_nan(arr1)
    THEN [ok |-> FALSE, err |-> "ValueError: array has nans", steps |-> steps1]
    ELSE IF Len0(stds_row) # NumCols(arr1)
    THEN \* np.dot: shapes not aligned
         [ok |-> FALSE, err |-> "ValueError: shapes not aligned",
          steps |-> steps1 \o <<"weights">>]
    ELSE IF Dim(arr1) - 2 > 0
    THEN WeightedRegression(arr1[target_var], arr1[2], Weights(stds_row),
                            MatVec(Weights(stds_row), arr1[2]),
                            VecMat(arr1[target_var], Weights(stds_row)),
                            steps1 \o <<"weights", "lstsq">>)
    ELSE [ok |-> TRUE, resid |-> VecMat(arr1[target_var], Weights(stds_row)),
          mean |-> None, steps |-> steps1 \o <<"weights">>]

\* ParCorrWLS._get_single_residuals(array, target_var, standardize,
\* return_means=True) with self.stds = self_stds: the residual and the mean,
\* or the error raised, and the steps executed.  self.stds[target_var] of
\* None is a TypeError, which is caught: the stds are then np.ones(T).
_get_single_residuals(arr, target_var, standardize, self_stds) ==
    IF x_vals_has_nan(arr)
    THEN [ok |-> FALSE, err |-> "ValueError: array has nans", steps |-> <<"nan_check">>]
    ELSE ResidualsOfRow(IF standardize THEN Standardize(arr) ELSE arr,
                        target_var, standardize,
                        IF self_stds = None THEN Ones(NumCols(arr)) ELSE self_stds[target_var],
                        <<"nan_check", "stds_lookup">>
                        \o (IF self_stds = None THEN <<"stds_fallback">> ELSE <<>>)
                        \o (IF standardize THEN <<"standardize">> ELSE <<>>))

--------------------------------------------------------------------------
(* The test object and its callers *)

\* the variables of the dataframe
Variables == {0, 1}

\* the lags of the variable references the callers pass
Lags == {0, -1}

TauMaxes == {0, 1}

\* Sample datasets: dataset k holds Sample(k, t, i) for variable i at time t
Sample(k, t, i) == (((k + 2 * i + 1) * (t * t + t + 1 + i) + k * t) % 5) - 2

DataFrames ==
    {[t \in 0 .. TimeLen - 1 |-> [i \in Variables |-> R(Sample(k, t, i))]] : k \in {1}}

\* a ground-truth table of the dataframe's shape, with standard deviations 1 and 2
GtStdMatrix == [t \in 0 .. TimeLen - 1 |-> [i \in Variables |-> R(1 + ((t + i) % 2))]]

\* The expert_knowledge arguments: the two markers, well-formed mappings,
\* and malformed values (an unknown marker, an unknown descriptor, a
\* descriptor that is not wrapped in a list, an empty descriptor list)
ExpertKnowledgeArgs ==
    { TimeDependent,
      Homoskedasticity,
      EmptyDict,
      PyDict([k \in {0} |-> PyList(<<TimeDependent>>)]),
      PyDict([k \in {0} |-> PyList(<<PyTuple(1, -1)>>)]),
      PyDict([k \in {0, 1} |-> IF k = 0 THEN PyList(<<PyTuple(1, -1)>>)
                                        ELSE PyList(<<TimeDependent>>)]),
      PyDict([k \in {1} |-> PyList(<<PyTuple(0, 0)>>)]),
      PyStr("heteroskedasticity"),
      PyDict([k \in {0, 1} |-> PyList(<<PyStr("parent-dependent heteroskedasticity")>>)]),
      PyDict([k \in {0} |-> TimeDependent]),
      PyDict([k \in {0} |-> PyList(<<>>)]) }

\* the expert_knowledge arguments given together with a ground-truth table
ExpertKnowledgeWithTable ==
    { TimeDependent,
      PyDict([k \in {0} |-> PyList(<<PyTuple(1, -1)>>)]),
      PyStr("heteroskedasticity") }

\* ParCorrWLS.__init__: the fields after construction; the dataframe is the
\* one set_dataframe gave the object
Init ==
    /\ dataframe \in DataFrames
    /\ \/ gt_std_matrix = None /\ arg_expert_knowledge \in ExpertKnowledgeArgs
       \/ gt_std_matrix = GtStdMatrix /\ arg_expert_knowledge \in ExpertKnowledgeWithTable
    /\ expert_knowledge = arg_expert_knowledge
    /\ window_size \in 1 .. MaxWindow
    /\ stds = None
    /\ data = None
    /\ array = None
    /\ call = [op |-> "__init__"]
    /\ ret = [ok |-> TRUE]
    /\ trace = <<>>

\* the lists X a caller passes: one node, or (rejected) two
XArgs == {<<<<i, lag>>>> : i \in Variables, lag \in Lags} \cup {<<<<0, 0>>, <<1, 0>>>>}

\* Y holds a node at lag zero (construct_array's do_checks)
YArgs == {<<<<1, 0>>>>}

\* the conditions: none or one node
ZArgs == {<<>>} \cup {<<<<0, lag>>>> : lag \in Lags}

\* every lag is within tau_max
LagsWithin(X, Y, Z, tau_max) ==
    \A node \in SeqToSet(X) \cup SeqToSet(Y) \cup SeqToSet(Z) : -NodeLag(node) <= tau_max

\* A call of _get_single_residuals changes no field of the object, so the
\* calls that can follow it are the calls that can follow the state it was
\* made in: they are made from that state.
FieldsMayChange == call.op # "_get_single_residuals"

\* ParCorrWLS._get_array(X, Y, Z, tau_max)
GetArray(X, Y, Z, tau_max) ==
    /\ FieldsMayChange
    /\ call' = [op |-> "_get_array", X |-> X, Y |-> Y, Z |-> Z, tau_max |-> tau_max]
    /\ UNCHANGED <<dataframe, gt_std_matrix, arg_expert_knowledge, window_size>>
    /\ IF Len(X) > 1 \/ Len(Y) > 1
       THEN /\ ret' = Raise("ValueError: X and Y must be univariate")
            /\ trace' = <<>>
            /\ array' = None
            /\ UNCHANGED <<expert_knowledge, stds, data>>
       ELSE \E arr \in {construct_array(dataframe, X, Y, Z, tau_max).array} :
                \E o \in _get_stds(arr, X, Y, Z, tau_max, dataframe, gt_std_matrix,
                                   expert_knowledge, data, stds, window_size) :
                    /\ expert_knowledge' = o.expert_knowledge
                    /\ data' = o.data
                    /\ stds' = o.stds
                    /\ trace' = <<"construct_array">> \o o.steps
                    /\ ret' = IF o.ok THEN [ok |-> TRUE] ELSE Raise(o.err)
                    /\ array' = IF o.ok THEN arr ELSE None

\* no entry of the array
NoPosition == <<-1, -1>>

\* the array of X = variable 0, Y = variable 1 with no conditions, built by
\* a caller straight from the dataframe
DirectArray == construct_array(dataframe, <<<<0, 0>>>>, <<<<1, 0>>>>, <<>>, 0).array

\* A caller's call of _get_single_residuals on a copy of the array it holds
\* (the one _get_array returned, else DirectArray); when nan_at is a position
\* of the array, the entry there is not-a-number
GetSingleResiduals(nan_at, target_var, standardize) ==
    /\ FieldsMayChange
    /\ \E base \in {IF array # None THEN array ELSE DirectArray} :
         \E has_nan \in {nan_at[1] \in DOMAIN base /\ nan_at[2] \in DOMAIN base[0]} :
           \E o \in {_get_single_residuals(
                        IF has_nan THEN [base EXCEPT ![nan_at[1]][nan_at[2]] = NaN] ELSE base,
                        target_var, standardize, stds)} :
              /\ call' = [op |-> "_get_single_residuals", has_nan |-> has_nan,
                          nan_at |-> nan_at, target_var |-> target_var,
                          standardize |-> standardize]
              /\ ret' = [f \in DOMAIN o \ {"steps"} |-> o[f]]
              /\ trace' = o.steps
    /\ UNCHANGED <<dataframe, gt_std_matrix, expert_knowledge, arg_expert_knowledge,
                   window_size, stds, data, array>>

\* NumberOfParameters counting the conditioning rows only
NumberOfConditions(dim) == dim - 2

\* Line 409: the number of parameters of the model fitted to an array of
\* dim rows
NumberOfParameters(dim) == dim - 1

\* Lines 407-415: the score T * log(rss) + 2 p (+ the small-sample term),
\* held as its terms: the logarithm is not evaluated
ModelSelectionScore(dim, T, y, corrected_aic) ==
    IF corrected_aic /\ T - NumberOfParameters(dim) - 1 = 0
    THEN Raise("ZeroDivisionError")
    ELSE [ok |-> TRUE, dim |-> dim, T |-> T, rss |-> VDot(y, y),
          penalty |-> R(2 * NumberOfParameters(dim)),
          correction |-> IF corrected_aic
                         THEN RDiv(R(2 * NumberOfParameters(dim) * NumberOfParameters(dim)
                                     + 2 * NumberOfParameters(dim)),
                                   R(T - NumberOfParameters(dim) - 1))
                         ELSE R(0)]

\* ParCorrWLS.get_model_selection_criterion(j, parents, tau_max,
\* corrected_aic), with self.robustify = False
GetModelSelectionCriterion(j, parents, tau_max, corrected_aic) ==
    /\ FieldsMayChange
    /\ call' = [op |-> "get_model_selection_criterion", j |-> j, parents |-> parents,
                tau_max |-> tau_max, corrected_aic |-> corrected_aic]
    /\ UNCHANGED <<dataframe, gt_std_matrix, arg_expert_knowledge, window_size>>
    /\ array' = None
    /\ \E arr \in {construct_array(dataframe, <<<<j, 0>>>>, <<<<j, 0>>>>, parents, tau_max).array} :
         \E o \in _get_stds(arr, <<<<j, 0>>>>, <<<<j, 0>>>>, parents, tau_max, dataframe,
                           gt_std_matrix, expert_knowledge, data, stds, window_size) :
              /\ expert_knowledge' = o.expert_knowledge
              /\ data' = o.data
              /\ stds' = o.stds
              /\ IF ~o.ok
                 THEN /\ ret' = Raise(o.err)
                      /\ trace' = <<"construct_array">> \o o.steps
                 ELSE \E r \in {_get_single_residuals(arr, 1, FALSE, o.stds)} :
                          /\ trace' = <<"construct_array">> \o o.steps \o r.steps
                          /\ ret' = IF ~r.ok THEN Raise(r.err)
                                    ELSE ModelSelectionScore(Dim(arr), NumCols(arr),
                                                             r.resid, corrected_aic)

NanPositions == {NoPosition} \cup ((0 .. 2) \X (0 .. 1))

\* the parents a caller scores a model with: none or one lagged node
ParentsArgs == {<<>>, <<<<0, -1>>>>}

Next ==
    \/ \E X \in XArgs, Y \in YArgs, Z \in ZArgs, tau_max \in TauMaxes :
          LagsWithin(X, Y, Z, tau_max) /\ GetArray(X, Y, Z, tau_max)
    \/ \E nan_at \in NanPositions, target_var \in 0 .. 1, standardize \in BOOLEAN :
          GetSingleResiduals(nan_at, target_var, standardize)
    \/ \E j \in Variables, parents \in ParentsArgs, tau_max \in TauMaxes,
          corrected_aic \in BOOLEAN :
          LagsWithin(<<>>, <<>>, parents, tau_max)
          /\ GetModelSelectionCriterion(j, parents, tau_max, corrected_aic)

Spec == Init /\ [][Next]_vars


--------------------------------------------------------------------------
(* The two estimators, called on their own by _get_std_estimation *)

\* number of time steps of the series the estimators are called on
SeriesLen == 6

\* largest window_size of those calls
MaxSmoothWindow == 3

\* Series k at time t: strictly increasing (k = 0), with ties (k = 1), without
\* order (other k)
Pattern(k, t) ==
    CASE k = 0 -> t + 1
      [] k = 1 -> ((t * t + 1) % 4) - 1
      [] OTHER -> ((3 * t + 2) % 5) - 2

SeriesFrames ==
    {[t \in 0 .. SeriesLen - 1 |->
        [i \in Variables |-> R(Pattern(IF i = 0 THEN k0 ELSE k1, t))]] : k0, k1 \in 0 .. 2}

\* registries that give each variable the other one as its driver
ParentRegistries ==
    {PyDict([k \in Variables |-> PyList(<<PyTuple(1 - k, lag)>>)]) : lag \in Lags}

\* The object inside its first _get_stds call, after line 115: the array
\* is built, the registry is a mapping and self.data holds the lag-zero cache
InitEstimators ==
    /\ dataframe \in SeriesFrames
    /\ gt_std_matrix = None
    /\ arg_expert_knowledge \in ParentRegistries
    /\ expert_knowledge = arg_expert_knowledge
    /\ window_size \in 1 .. MaxSmoothWindow
    /\ stds = None
    /\ \E X \in {<<<<0, 0>>>>, <<<<0, -1>>>>}, Z \in {<<>>, <<<<1, -1>>>>}, tau_max \in 0 .. 2 :
          /\ LagsWithin(X, <<<<1, 0>>>>, Z, tau_max)
          /\ array = construct_array(dataframe, X, <<<<1, 0>>>>, Z, tau_max).array
          /\ data = BuildData(dataframe, X, <<<<1, 0>>>>, tau_max)
          /\ call = [op |-> "_get_stds", X |-> X, Y |-> <<<<1, 0>>>>, Z |-> Z,
                     tau_max |-> tau_max]
    /\ ret = [ok |-> TRUE]
    /\ trace = <<"construct_array", "build_data">>

\* Line 267: self._estimate_std_time(array, count)
EstimateStdTime(count) ==
    /\ call.op = "_get_stds"
    /\ call' = [op |-> "_estimate_std_time", target_var |-> count]
    /\ ret' = _estimate_std_time(array, count, window_size)
    /\ trace' = <<"_estimate_std_time">>
    /\ UNCHANGED <<dataframe, gt_std_matrix, expert_knowledge, arg_expert_knowledge,
                   window_size, stds, data, array>>

\* Lines 263-270: self._estimate_std_parent(array, count, variable[1],
\* hs_source) for variable = X[0] (count = 0) or Y[0] (count = 1)
EstimateStdParent(count) ==
    LET variable == IF count = 0 THEN call.X[1] ELSE call.Y[1]
        hs_source == Index0(expert_knowledge.m[NodeVar(variable)]).v
    IN  /\ call.op = "_get_stds"
        /\ call' = [op |-> "_estimate_std_parent", target_var |-> count,
                    target_lag |-> NodeLag(variable), H |-> hs_source]
        /\ ret' \in _estimate_std_parent(array, count, NodeLag(variable), hs_source,
                                         data, window_size)
        /\ trace' = <<"_estimate_std_parent">>
        /\ UNCHANGED <<dataframe, gt_std_matrix, expert_knowledge, arg_expert_knowledge,
                       window_size, stds, data, array>>

NextEstimators ==
    \/ \E count \in 0 .. 1 : EstimateStdTime(count)
    \/ \E count \in 0 .. 1 : EstimateStdParent(count)

SpecEstimators == InitEstimators /\ [][NextEstimators]_vars

--------------------------------------------------------------------------
(* Properties of the estimators *)

\* v[a] + ... + v[b]
RECURSIVE SumRange(_, _, _)
SumRange(v, a, b) == IF a > b THEN R(0) ELSE RAdd(v[a], SumRange(v, a + 1, b))

\* the mean of v[a .. b]
WindowMean(v, a, b) == RDiv(SumRange(v, a, b), R(b - a + 1))

\* C2: for window_size = w and an array of T >= w columns,
\* _estimate_std_time returns a vector of length T whose first w - 1 entries
\* are 1 and whose entry at each t >= w - 1 is the mean of the w absolute
\* residuals at t - w + 1 .. t.
C2_TimeSmoothing ==
    (call.op = "_estimate_std_time" /\ NumCols(array) >= window_size) =>
        LET T == NumCols(array)
            w == window_size
            resid == AbsResid(array, call.target_var)
        IN  /\ ret.ok
            /\ DOMAIN ret.v = 0 .. T - 1
            /\ \A t \in 0 .. w - 2 : ret.v[t] = R(1)
            /\ \A t \in w - 1 .. T - 1 : ret.v[t] = WindowMean(resid, t - w + 1, t)

\* a call of _estimate_std_time with 1 < w < T on an array with a
\* conditioning row, whose estimate is not constant
C2_Witness ==
    /\ call.op = "_estimate_std_time"
    /\ window_size > 1
    /\ NumCols(array) > window_size
    /\ Dim(array) = 3
    /\ ret.ok
    /\ \E t \in DOMAIN ret.v : t >= window_size - 1 /\ ret.v[t] # ret.v[window_size - 1]

\* h[0] < h[1] < ...
StrictlyIncreasing(h) ==
    \A i \in DOMAIN h : i + 1 \in DOMAIN h => (RLeq(h[i], h[i + 1]) /\ h[i] # h[i + 1])

\* C3: in _estimate_std_parent, for a driver slice with strictly increasing
\* values, indexing by ordered_z_ind and then by revert_argsort returns
\* every element to its time position: the composition of the two index
\* arrays is the identity.
C3_SortRoundTrip ==
    (/\ call.op = "_estimate_std_parent"
     /\ ret.ok
     /\ "h" \in DOMAIN ret
     /\ StrictlyIncreasing(ret.h)) =>
        /\ DOMAIN ret.ordered_z_ind = DOMAIN ret.h
        /\ DOMAIN ret.revert_argsort = DOMAIN ret.h
        /\ \A i \in DOMAIN ret.h : ret.ordered_z_ind[ret.revert_argsort[i]] = i
        /\ LET seq == SliceFrom(AbsResid(array, call.target_var),
                                AbsInt(call.H.e[2] + call.target_lag))
           IN  Take(Take(seq, ret.ordered_z_ind), ret.revert_argsort) = seq

\* a call of _estimate_std_parent that sorted a strictly increasing driver
\* slice of three or more values
C3_Witness ==
    /\ call.op = "_estimate_std_parent"
    /\ ret.ok
    /\ "h" \in DOMAIN ret
    /\ Len0(ret.h) >= 3
    /\ StrictlyIncreasing(ret.h)

\* C10: for a tested variable whose descriptor is ParentDependent(driver),
\* _estimate_std_parent smooths the absolute residuals (the absolute raw
\* values when there are no conditioning rows) in the order of the driver's
\* values, for every array: whenever a window of two or more is smoothed
\* and that smoothing is defined, the estimate returned is one it gives.
C10_DriverOrderAlways ==
    LET by_driver == SmoothByDriver(AbsResid(array, call.target_var), NumCols(array),
                                    call.target_lag, call.H, data, window_size)
    IN  (/\ call.op = "_estimate_std_parent"
         /\ window_size > 1
         /\ ret.ok
         /\ \E o \in by_driver : o.ok) =>
            \E o \in by_driver : o.ok /\ o.v = ret.v

--------------------------------------------------------------------------
(* Properties of the test object *)

\* the plain least-squares residual of row target_var on the conditioning
\* row, or the row itself when there is none
OlsResidual(arr, target_var) ==
    LET y == arr[target_var]
    IN  IF Dim(arr) > 2
        THEN LET z == arr[2]
                 beta == IF IsZero(VDot(z, z)) THEN R(0) ELSE RDiv(VDot(z, y), VDot(z, z))
             IN  [t \in DOMAIN y |-> RSub(y[t], RMul(beta, z[t]))]
        ELSE y

\* C1: with expert knowledge "homoskedasticity" (and no ground-truth table),
\* _get_array leaves the registry empty and sets stds to the all-ones (2, T)
\* matrix, and _get_single_residuals on the returned array, when it holds
\* no not-a-number, returns the unweighted OLS residual of the target row on
\* the conditioning row (the target row itself when there is none).
C1_Homoskedastic ==
    (gt_std_matrix = None /\ arg_expert_knowledge = Homoskedasticity) =>
        /\ (call.op = "_get_array" /\ Len(call.X) = 1) =>
                /\ ret.ok
                /\ expert_knowledge = EmptyDict
                /\ stds = [count \in 0 .. 1 |-> [t \in 0 .. NumCols(array) - 1 |-> R(1)]]
        /\ (call.op = "_get_single_residuals" /\ array # None /\ ~call.has_nan) =>
                /\ ret.ok
                /\ ret.resid = OlsResidual(IF call.standardize THEN Standardize(array)
                                           ELSE array, call.target_var)

\* a residual computed under "homoskedasticity" on a returned array with a
\* conditioning row, different from the target row
C1_Witness ==
    /\ gt_std_matrix = None
    /\ arg_expert_knowledge = Homoskedasticity
    /\ call.op = "_get_single_residuals"
    /\ array # None
    /\ Dim(array) = 3
    /\ ~call.has_nan
    /\ ret.ok
    /\ ret.resid # array[call.target_var]

\* C4: when the array passed to _get_single_residuals holds a not-a-number
\* entry, in any row and column, the call fails at the first check, before
\* the stds lookup, the standardization, the weights and the least-squares
\* fit, and returns no residual.
C4_NanRejectedFirst ==
    (call.op = "_get_single_residuals" /\ call.has_nan) =>
        /\ ~ret.ok
        /\ trace = <<"nan_check">>
        /\ "resid" \notin DOMAIN ret

\* a call whose array holds a not-a-number in its conditioning row, on an
\* object that holds stds
C4_Witness ==
    /\ call.op = "_get_single_residuals"
    /\ call.has_nan
    /\ call.nan_at[1] = 2
    /\ stds # None
    /\ ~ret.ok

\* the last call ran _get_array's body past the univariate check
RanGetStds ==
    \/ call.op = "_get_array" /\ Len(call.X) = 1
    \/ call.op = "get_model_selection_criterion"

LastX == IF call.op = "_get_array" THEN call.X ELSE <<<<call.j, 0>>>>

LastY == IF call.op = "_get_array" THEN call.Y ELSE <<<<call.j, 0>>>>

LastZ == IF call.op = "_get_array" THEN call.Z ELSE call.parents

EstimationSteps ==
    {"expand_expert_knowledge", "build_data", "_get_std_estimation",
     "_estimate_std_time", "_estimate_std_parent"}

\* C5: when a ground-truth table is given, every _get_array call sets stds
\* to the array construct_array builds from the table for the call's X, Y,
\* Z and tau_max, no estimation step runs, the registry stays as
\* constructed and self.data is never built, whatever the expert knowledge.
C5_GroundTruthPrecedence ==
    gt_std_matrix # None =>
        /\ expert_knowledge = arg_expert_knowledge
        /\ data = None
        /\ \A i \in DOMAIN trace : trace[i] \notin EstimationSteps
        /\ RanGetStds =>
              stds = construct_array(gt_std_matrix, LastX, LastY, LastZ, call.tau_max).array

\* a successful _get_array call with a table and a registry that names a
\* driver, on an array with a conditioning row
C5_Witness ==
    /\ gt_std_matrix # None
    /\ arg_expert_knowledge.t = "dict"
    /\ call.op = "_get_array"
    /\ ret.ok
    /\ Dim(array) = 3
    /\ stds # None

\* the parents that get a row of the array: those that are not (j, 0)
ParentRows == Len(FilterSeq(call.parents, {<<call.j, 0>>}))

\* C6 as claimed: the parameter count p of the penalty 2p and of the
\* corrected-AIC term is the number of parent rows of the array (dim - 2).
C6_CountsParentRows ==
    (call.op = "get_model_selection_criterion" /\ ret.ok) =>
        /\ ret.dim - 2 = ParentRows
        /\ ret.penalty = R(2 * ParentRows)

\* C6 as amended: the parameter count p of the penalty 2p and of the
\* corrected-AIC term (2p^2 + 2p) / (T - p - 1) is dim - 1, one more than
\* the number of parent rows of the array.
C6_CountsParentRowsPlusOne ==
    (call.op = "get_model_selection_criterion" /\ ret.ok) =>
        LET p == ParentRows + 1
        IN  /\ ret.dim - 1 = p
            /\ ret.penalty = R(2 * p)
            /\ ret.correction = IF call.corrected_aic
                                THEN RDiv(R(2 * p * p + 2 * p), R(ret.T - p - 1))
                                ELSE R(0)

\* a corrected score of a model with one parent
C6_Witness ==
    /\ call.op = "get_model_selection_criterion"
    /\ ret.ok
    /\ ParentRows = 1
    /\ call.corrected_aic

\* one of the two markers, or a mapping from variables to one-element lists
\* that hold the time-dependent marker or a (driver, lag) tuple
WellFormed(ek) ==
    \/ ek = TimeDependent
    \/ ek = Homoskedasticity
    \/ /\ ek.t = "dict"
       /\ \A k \in DOMAIN ek.m :
             /\ ek.m[k].t = "list"
             /\ Len(ek.m[k].e) = 1
             /\ (ek.m[k].e[1] = TimeDependent \/ ek.m[k].e[1].t = "tuple")

\* C7: with no ground-truth table, expert knowledge that is neither a known
\* marker nor a well-formed mapping makes _get_array fail; a mapping with an
\* unrecognized descriptor for a tested variable never yields stds silently.
C7_MalformedRejected ==
    (/\ gt_std_matrix = None
     /\ ~WellFormed(arg_expert_knowledge)
     /\ call.op = "_get_array"
     /\ Len(call.X) = 1) => ~ret.ok

\* the registry holds a (driver, lag) descriptor
HasParentDependent(ek) ==
    /\ ek.t = "dict"
    /\ \E k \in DOMAIN ek.m :
          /\ ek.m[k].t = "list"
          /\ \E i \in 1 .. Len(ek.m[k].e) : ek.m[k].e[i].t = "tuple"

\* C8: after any sequence of calls on an object with well-formed expert
\* knowledge, self.data has been built only if a descriptor of the registry
\* is ParentDependent; for a registry of TimeDependent entries only
\* (including the one expanded from the default marker), or none, self.data
\* stays unset.
C8_CacheOnlyForParentDependent ==
    (WellFormed(arg_expert_knowledge) /\ data # None) => HasParentDependent(expert_knowledge)

\* C9 as claimed: after every successful _get_array call self.stds has
\* shape (2, T), T the column count of the array returned by that call.
C9_ShapeTwoByT ==
    (call.op = "_get_array" /\ ret.ok) =>
        /\ DOMAIN stds = 0 .. 1
        /\ \A i \in DOMAIN stds : DOMAIN stds[i] = DOMAIN array[0]

\* C9 as amended: after every successful _get_array call every row of
\* self.stds has the column count of the array returned by that call, rows 0
\* and 1 are those of X and Y, and self.stds has exactly 2 rows when it was
\* estimated and the rows of the array (2 + the conditions) when it was
\* taken from a ground-truth table.
C9_ShapeByConfiguration ==
    (call.op = "_get_array" /\ ret.ok) =>
        /\ DOMAIN stds = IF gt_std_matrix # None THEN DOMAIN array ELSE 0 .. 1
        /\ \A i \in DOMAIN stds : DOMAIN stds[i] = DOMAIN array[0]

\* a successful call with a table and a conditioning row: stds has a third
\* row
C9_Witness ==
    /\ call.op = "_get_array"
    /\ ret.ok
    /\ gt_std_matrix # None
    /\ Dim(array) = 3
    /\ Dim(stds) = 3

====
